---- MODULE Spec2Model ----
(***************************************************************************)
(* A model of VCFClean.py: the pipeline of extract_invalid_contacts        *)
(* (convert_to_utf8, remove_non_printable, load_vcf, VcfValidator.validate,*)
(* save_vcf_with_errors, cleanup) and its pure parts.                      *)
(*                                                                         *)
(* Text is kept at character level.  A character is a one-character string;*)
(* characters TLA+ cannot write are named: "VT" (U+000B), "NUL" (U+0000),  *)
(* "BACKTICK" (U+0060), "e_acute" (U+00E9), "uFFFD" (U+FFFD, the           *)
(* replacement character of the decoder) and "xFF" (a byte the detected    *)
(* encoding cannot decode).                                                *)
(* A line is a sequence of characters, a file a sequence of lines: the     *)
(* line terminators are printable and neither stage changes them, so the   *)
(* line structure is the same in every file of a run.                      *)
(***************************************************************************)
EXTENDS Integers, Sequences, FiniteSets, TLC

VARIABLES
    files,             \* the file system: path -> Absent or content
    opened,            \* paths opened with mode "w" so far in the run
    pc,                \* position in extract_invalid_contacts
    contacts,          \* the list load_vcf returned
    valid_contacts,    \* list of <<contact, errors>>
    invalid_contacts,  \* list of <<contact, errors>>
    stdout,            \* the messages printed so far (their kind)
    serialized,        \* what contact.serialize() did, per contact id
    seg_lines,         \* load_vcf run line by line: the lines of the file
    seg_i,             \*   index of the next line
    scan,              \*   the locals of load_vcf
    san,               \* remove_non_printable applied repeatedly: the text
                       \*   read first, then each text written
    v_contact,         \* VcfValidator.validate alone: its argument
    v_errors,          \*   its return value
    v_done             \*   whether it has returned

vars == <<files, opened, pc, contacts, valid_contacts, invalid_contacts, stdout,
          serialized, seg_lines, seg_i, scan, san,
          v_contact, v_errors, v_done>>

pipeVars == <<files, opened, pc, contacts, valid_contacts, invalid_contacts,
              stdout, serialized>>
segVars == <<seg_lines, seg_i, scan>>
valVars == <<v_contact, v_errors, v_done>>

----------------------------------------------------------------------------
(* Bounds of the model *)

MaxBlocks == 3   \* chunks (blocks, stray lines) in an input file of the pipeline
MaxLines == 5    \* lines in a file scanned by load_vcf line by line
MaxText == 3     \* characters in a text given to the sanitizer
MaxTels == 2     \* telephone values of a contact given to the validator

----------------------------------------------------------------------------
(* Characters: string.printable and the sets the regular expressions use *)

Digits == {"0", "1", "2", "3", "4", "5", "6", "7", "8", "9"}

Letters ==
    {"a", "b", "c", "d", "e", "f", "g", "h", "i", "j", "k", "l", "m",
     "n", "o", "p", "q", "r", "s", "t", "u", "v", "w", "x", "y", "z",
     "A", "B", "C", "D", "E", "F", "G", "H", "I", "J", "K", "L", "M",
     "N", "O", "P", "Q", "R", "S", "T", "U", "V", "W", "X", "Y", "Z"}

Punctuation ==
    {"!", "\"", "#", "$", "%", "&", "'", "(", ")", "*", "+", ",", "-", ".",
     "/", ":", ";", "<", "=", ">", "?", "@", "[", "\\", "]", "^", "_", "BACKTICK",
     "{", "|", "}", "~"}

\* string.whitespace; str.strip() and the regex class \s agree with it on
\* printable text
Whitespace == {" ", "\t", "\n", "\r", "VT", "\f"}

\* string.printable
Printable == Digits \cup Letters \cup Punctuation \cup Whitespace

\* VcfValidator.INVALID_CHARS
INVALID_CHARS == {"<", ">", "|", ":", "*", "?", "\"", "\\", "/"}

\* the class with a literal space in place of \s
PhoneCharsSpaceOnly == {"+", "-", "(", ")"} \cup Digits \cup {" "}

\* the character class [+0-9\s\-\(\)] of the phone pattern
PhoneChars == {"+", "-", "(", ")"} \cup Digits \cup Whitespace

----------------------------------------------------------------------------
(* Helpers on sequences *)

RECURSIVE Flatten(_)
Flatten(ss) == IF ss = <<>> THEN <<>> ELSE Head(ss) \o Flatten(Tail(ss))

\* sequences over S of length 0..n
SeqUpTo(S, n) == UNION {[1..k -> S] : k \in 0..n}

\* str.startswith
StartsWith(line, prefix) ==
    /\ Len(line) >= Len(prefix)
    /\ SubSeq(line, 1, Len(prefix)) = prefix

RECURSIVE LStrip(_)
LStrip(s) ==
    IF s # <<>> /\ Head(s) \in Whitespace THEN LStrip(Tail(s)) ELSE s

RECURSIVE RStrip(_)
RStrip(s) ==
    IF s # <<>> /\ s[Len(s)] \in Whitespace
    THEN RStrip(SubSeq(s, 1, Len(s) - 1))
    ELSE s

\* str.strip
Strip(s) == RStrip(LStrip(s))

----------------------------------------------------------------------------
(* convert_to_utf8: decoding with errors="replace" *)

Decode(b) == IF b = "xFF" THEN "uFFFD" ELSE b

DecodeLine(line) == [i \in 1..Len(line) |-> Decode(line[i])]

DecodeText(text) == [i \in 1..Len(text) |-> DecodeLine(text[i])]

----------------------------------------------------------------------------
(* remove_non_printable *)

SanitizeCharUnderscore(c) == IF c \in Printable THEN <<c>> ELSE <<"_">>

\* a sanitizer that keeps the offending character and marks it
SanitizeCharMark(c) == IF c \in Printable THEN <<c>> ELSE <<"?", c>>

\* char if char in string.printable else '?'
SanitizeChar(c) == IF c \in Printable THEN <<c>> ELSE <<"?">>

\* ''.join(... for char in f.read())
SanitizeLine(line) == Flatten([i \in 1..Len(line) |-> SanitizeChar(line[i])])

SanitizeText(text) == [i \in 1..Len(text) |-> SanitizeLine(text[i])]

----------------------------------------------------------------------------
(* VcfValidator.validate.  A contact is [id, fn, tel, email]: fn, tel and  *)
(* email are the lists of values of its FN, TEL and EMAIL lines            *)
(* (hasattr(contact, 'fn') is fn # <<>>, contact.fn.value is fn[1]); id    *)
(* stands for the identity of the Python object.  A message built by an    *)
(* f-string is the pair of its fixed text and the value.                   *)

\* INVALID_CHARS.search(value)
SearchInvalid(value) == \E i \in 1..Len(value) : value[i] \in INVALID_CHARS

\* re.match(r'^[+0-9\s\-\(\)]+$', value): one or more characters of the
\* class, then the end of the string or the newline that ends the string
PhoneMatch(value) ==
    \E k \in 1..Len(value) :
        /\ \A i \in 1..k : value[i] \in PhoneChars
        /\ \/ k = Len(value)
           \/ k = Len(value) - 1 /\ value[Len(value)] = "\n"

RECURSIVE PhoneErrors(_)
PhoneErrors(tels) ==
    IF tels = <<>> THEN <<>>
    ELSE (IF ~PhoneMatch(Head(tels))
          THEN << <<"Invalid phone format: ", Head(tels)>> >>
          ELSE <<>>) \o PhoneErrors(Tail(tels))

\* a validator that returns at the first failing rule
validateFirstOnly(contact) ==
    LET hasfn == contact.fn # <<>>
    IN  IF ~hasfn \/ contact.fn[1] = <<>> THEN << <<"Missing full name">> >>
        ELSE IF SearchInvalid(contact.fn[1])
        THEN << <<"Invalid characters in name: ", contact.fn[1]>> >>
        ELSE IF contact.tel = <<>> /\ contact.email = <<>>
        THEN << <<"Missing phone and/or email">> >>
        ELSE PhoneErrors(contact.tel)

validate(contact) ==
    LET hasfn == contact.fn # <<>>
        e1 == IF ~hasfn \/ contact.fn[1] = <<>>
              THEN << <<"Missing full name">> >> ELSE <<>>
        e2 == IF hasfn /\ SearchInvalid(contact.fn[1])
              THEN e1 \o << <<"Invalid characters in name: ", contact.fn[1]>> >>
              ELSE e1
        has_phone == contact.tel # <<>>
        has_email == contact.email # <<>>
        e3 == IF ~(has_phone \/ has_email)
              THEN e2 \o << <<"Missing phone and/or email">> >>
              ELSE e2
        e4 == IF has_phone THEN e3 \o PhoneErrors(contact.tel) ELSE e3
    IN  e4

\* the label the messages and the report use
Label(contact) == IF contact.fn # <<>> THEN contact.fn[1] ELSE <<"Unknown">>

----------------------------------------------------------------------------
(* vobject.readOne, as far as load_vcf and the validator depend on it: a   *)
(* block parses when it runs from a BEGIN:VCARD line to an END:VCARD line  *)
(* and every line between them is blank or a content line NAME:value;      *)
(* anything else raises ParseError.  Values are taken as written.          *)

BeginMarker == <<"B", "E", "G", "I", "N", ":", "V", "C", "A", "R", "D">>

EndMarker == <<"E", "N", "D", ":", "V", "C", "A", "R", "D">>

NameChars == Letters \cup Digits \cup {"-"}

\* index of the first ":" of the line, 0 when it has none
FirstColon(line) ==
    IF \E i \in 1..Len(line) : line[i] = ":"
    THEN CHOOSE i \in 1..Len(line) :
             /\ line[i] = ":"
             /\ \A j \in 1..(i - 1) : line[j] # ":"
    ELSE 0

ContentLine(line) ==
    /\ FirstColon(line) > 1
    /\ \A i \in 1..(FirstColon(line) - 1) : line[i] \in NameChars

PropName(line) == SubSeq(line, 1, FirstColon(line) - 1)

PropValue(line) == SubSeq(line, FirstColon(line) + 1, Len(line))

\* the values of the lines named name, in block order
RECURSIVE ValuesOf(_, _)
ValuesOf(body, name) ==
    IF body = <<>> THEN <<>>
    ELSE (IF PropName(Head(body)) = name
          THEN <<PropValue(Head(body))>>
          ELSE <<>>) \o ValuesOf(Tail(body), name)

ParseRecord(block, id) ==
    LET nb == SelectSeq(block, LAMBDA l : l # <<>>)
        ok == /\ Len(nb) >= 2
              /\ nb[1] = BeginMarker
              /\ nb[Len(nb)] = EndMarker
              /\ \A i \in 1..Len(nb) : ContentLine(nb[i])
        body == SubSeq(nb, 2, Len(nb) - 1)
    IN  IF ok
        THEN [ok |-> TRUE,
              contact |-> [id |-> id,
                           fn |-> ValuesOf(body, <<"F", "N">>),
                           tel |-> ValuesOf(body, <<"T", "E", "L">>),
                           email |-> ValuesOf(body, <<"E", "M", "A", "I", "L">>)]]
        ELSE [ok |-> FALSE, contact |-> <<>>]

----------------------------------------------------------------------------
(* load_vcf.  Its locals: contacts and current_vcard; begin_at is the line *)
(* number of the begin-marker of the capture in progress (it becomes the   *)
(* identity of the contact parsed from it); parsed lists the block texts   *)
(* handed to vobject.readOne; out is what the function printed.            *)

ScanInit ==
    [contacts |-> <<>>, current_vcard |-> <<>>, begin_at |-> 0,
     parsed |-> <<>>, out |-> <<"Loading VCF file">>, returned |-> FALSE]

\* a begin-marker inside a capture is kept as a body line instead of restarting
ScanLineNoRestart(s, raw, i) ==
    LET line == Strip(raw)
    IN  IF StartsWith(line, BeginMarker) /\ s.current_vcard = <<>>
        THEN [s EXCEPT !.current_vcard = <<line>>, !.begin_at = i]
        ELSE IF StartsWith(line, EndMarker)
        THEN LET block == Append(s.current_vcard, line)
                 r == ParseRecord(block, s.begin_at)
             IN  [s EXCEPT !.contacts = IF r.ok THEN Append(@, r.contact) ELSE @,
                           !.current_vcard = <<>>,
                           !.begin_at = 0,
                           !.parsed = Append(@, block),
                           !.out = IF r.ok THEN @ ELSE Append(@, "Malformed contact")]
        ELSE IF s.current_vcard # <<>>
        THEN [s EXCEPT !.current_vcard = Append(@, line)]
        ELSE s

\* the body of the loop over the lines of the file
ScanLine(s, raw, i) ==
    LET line == Strip(raw)
    IN  IF StartsWith(line, BeginMarker)
        THEN [s EXCEPT !.current_vcard = <<line>>, !.begin_at = i]
        ELSE IF StartsWith(line, EndMarker)
        THEN LET block == Append(s.current_vcard, line)
                 r == ParseRecord(block, s.begin_at)
             IN  [s EXCEPT !.contacts = IF r.ok THEN Append(@, r.contact) ELSE @,
                           !.current_vcard = <<>>,
                           !.begin_at = 0,
                           !.parsed = Append(@, block),
                           !.out = IF r.ok THEN @ ELSE Append(@, "Malformed contact")]
        ELSE IF s.current_vcard # <<>>
        THEN [s EXCEPT !.current_vcard = Append(@, line)]
        ELSE s

\* the print and the return after the loop
ScanReturn(s) == [s EXCEPT !.out = Append(@, "Loaded"), !.returned = TRUE]

RECURSIVE ScanFrom(_, _, _)
ScanFrom(s, lines, i) ==
    IF i > Len(lines) THEN ScanReturn(s)
    ELSE ScanFrom(ScanLine(s, lines[i], i), lines, i + 1)

load_vcf(lines) == ScanFrom(ScanInit, lines, 1)

----------------------------------------------------------------------------
(* The file system and contact.serialize.  The three paths of the command  *)
(* line are taken to differ from each other and from the fixed names.      *)

INPUT == "input_vcf"
VALID == "valid_vcf"
INVALID == "invalid_vcf"
TEMP_UTF8 == "temp_utf8.vcf"
TEMP_CLEANED == "temp_cleaned.vcf"
EXPLANATIONS == "invalid_explanations.txt"

Paths == {INPUT, VALID, INVALID, TEMP_UTF8, TEMP_CLEANED, EXPLANATIONS}

Absent == [exists |-> FALSE, content |-> <<>>]

File(content) == [exists |-> TRUE, content |-> content]

\* what a file left by an earlier run holds
Stale == File(<< <<"o", "l", "d">> >>)

\* contact.serialize() is vobject's: it returns the text of the block, returns
\* blank text, or raises
SerOutcomes == {"text", "blank", "raise"}

PropLines(name, values) == [i \in 1..Len(values) |-> name \o <<":">> \o values[i]]

\* the text serialize returns, as lines
SerializeText(c) ==
    <<BeginMarker>>
        \o PropLines(<<"F", "N">>, c.fn)
        \o PropLines(<<"T", "E", "L">>, c.tel)
        \o PropLines(<<"E", "M", "A", "I", "L">>, c.email)
        \o <<EndMarker>>

----------------------------------------------------------------------------
(* save_vcf_with_errors: the loop over the contacts of an open file.       *)
(* outs[i] is what serialize does for the i-th contact.                    *)

RECURSIVE WriteFrom(_, _, _)
WriteFrom(bucket, outs, i) ==
    IF i > Len(bucket) THEN [content |-> <<>>, out |-> <<>>]
    ELSE LET rest == WriteFrom(bucket, outs, i + 1)
             c == bucket[i][1]
         IN  IF outs[i] = "text"
             THEN [content |-> SerializeText(c) \o rest.content,
                   out |-> <<"Saved invalid contact">> \o rest.out]
             ELSE IF outs[i] = "blank"
             THEN [content |-> rest.content,
                   out |-> <<"Skipping invalid contact with empty serialization">>
                               \o rest.out]
             ELSE [content |-> rest.content,
                   out |-> <<"Failed to serialize contact">> \o rest.out]

\* the file system after save_vcf_with_errors(bucket, path)
SaveVcfFiles(bucket, path, outs, fs) ==
    IF bucket = <<>> THEN fs
    ELSE [fs EXCEPT ![path] = File(WriteFrom(bucket, outs, 1).content)]

\* what save_vcf_with_errors(bucket, path) prints
SaveVcfOut(bucket, outs) ==
    IF bucket = <<>> THEN <<"Warning: No contacts to save">>
    ELSE WriteFrom(bucket, outs, 1).out

SaveVcfOpened(bucket, path) == IF bucket = <<>> THEN {} ELSE {path}

SaveVcfSerialized(bucket, outs) ==
    {<<bucket[i][1].id, outs[i]>> : i \in 1..Len(bucket)}

----------------------------------------------------------------------------
(* extract_invalid_contacts, step 4: the loop over contacts *)

ClassifyInit == [valid |-> <<>>, invalid |-> <<>>, report |-> <<>>, out |-> <<>>]

\* a loop that puts each new invalid contact in front of the earlier ones
ClassifyStepPrepend(acc, contact) ==
    LET errors == validate(contact)
    IN  IF errors # <<>>
        THEN [acc EXCEPT !.invalid = <<<<contact, errors>>>> \o @,
                         !.out = @ \o <<"Validating contact", "Validation errors">>]
        ELSE [acc EXCEPT !.valid = Append(@, <<contact, <<>>>>),
                         !.out = @ \o <<"Validating contact", "Validation errors">>]

ClassifyStep(acc, contact) ==
    LET errors == validate(contact)
        lines == << <<"Contact: ", Label(contact)>> >>
                    \o [i \in 1..Len(errors) |-> <<"  - ", errors[i]>>]
                    \o << <<>> >>
    IN  IF errors # <<>>
        THEN [acc EXCEPT !.invalid = Append(@, <<contact, errors>>),
                         !.report = @ \o lines,
                         !.out = @ \o <<"Validating contact", "Validation errors">>]
        ELSE [acc EXCEPT !.valid = Append(@, <<contact, <<>>>>),
                         !.out = @ \o <<"Validating contact", "Validation errors">>]

RECURSIVE ClassifyFrom(_, _, _)
ClassifyFrom(acc, cs, i) ==
    IF i > Len(cs) THEN acc
    ELSE ClassifyFrom(ClassifyStep(acc, cs[i]), cs, i + 1)

----------------------------------------------------------------------------
(* Inputs *)

FN(v) == <<"F", "N", ":">> \o v
TEL(v) == <<"T", "E", "L", ":">> \o v
EMAIL(v) == <<"E", "M", "A", "I", "L", ":">> \o v

\* the pieces an input file of the pipeline is made of, as undecoded lines
Chunks ==
    { <<BeginMarker, FN(<<"A">>), TEL(<<"1">>), EndMarker>>,
      <<BeginMarker, FN(<<"B">>), EMAIL(<<"e">>), EndMarker>>,
      <<BeginMarker, FN(<<"e_acute", "xFF">>), TEL(<<"1">>), EndMarker>>,
      <<BeginMarker, EndMarker>>,
      <<BeginMarker, FN(<<"A">>)>>,
      <<EndMarker>>,
      <<BeginMarker, <<"x">>, EndMarker>> }

\* the lines of a file scanned line by line, as iteration over the file
\* yields them
SegLines ==
    { <<" ">> \o BeginMarker,
      EndMarker \o <<"\n">>,
      <<" ">> \o FN(<<"A">>) \o <<" ">>,
      TEL(<<"1">>),
      <<"x">> }

\* the characters of a text given to the sanitizer
SanChars == {"a", "?", "\n", "NUL", "e_acute", "uFFFD"}

\* the telephone values and full names of a contact given to the validator
TelValues ==
    { <<>>,
      <<"+", "1", " ", "(", "5", ")", "-", "2">>,
      <<"1", "\t", "2">>,
      <<"1", "\n">>,
      <<"1", "a">> }

NameValues == { <<>>, <<"A", "l">>, <<"B", "o", "b", "<", ">">>, <<"a", "?">> }

ValContacts ==
    [id : {0},
     fn : {<<>>} \cup {<<n>> : n \in NameValues},
     tel : SeqUpTo(TelValues, MaxTels),
     email : {<<>>, << <<"e">> >>}]

----------------------------------------------------------------------------
(* Initial states *)

PipeIdle ==
    /\ files = [p \in Paths |-> Absent]
    /\ opened = {}
    /\ pc = "idle"
    /\ contacts = <<>>
    /\ valid_contacts = <<>>
    /\ invalid_contacts = <<>>
    /\ stdout = <<>>
    /\ serialized = {}

SegIdle == seg_lines = <<>> /\ seg_i = 1 /\ scan = ScanInit

SanIdle == san = <<>>

ValIdle == v_contact = <<>> /\ v_errors = <<>> /\ v_done = FALSE

\* a run of extract_invalid_contacts: the input file exists, the temporary
\* files do not, the output files are absent or left by an earlier run
Init ==
    /\ \E cs \in SeqUpTo(Chunks, MaxBlocks), old \in {Absent, Stale} :
           files = [p \in Paths |->
                       IF p = INPUT THEN File(Flatten(cs))
                       ELSE IF p \in {VALID, INVALID, EXPLANATIONS} THEN old
                       ELSE Absent]
    /\ opened = {}
    /\ pc = "start"
    /\ contacts = <<>>
    /\ valid_contacts = <<>>
    /\ invalid_contacts = <<>>
    /\ stdout = <<>>
    /\ serialized = {}
    /\ SegIdle /\ SanIdle /\ ValIdle

InitSegment ==
    /\ seg_lines \in SeqUpTo(SegLines, MaxLines)
    /\ seg_i = 1
    /\ scan = ScanInit
    /\ PipeIdle /\ SanIdle /\ ValIdle

InitSanitize ==
    /\ san \in {<<x>> : x \in SeqUpTo(SanChars, MaxText)}
    /\ PipeIdle /\ SegIdle /\ ValIdle

InitValidate ==
    /\ v_contact \in ValContacts
    /\ v_errors = <<>>
    /\ v_done = FALSE
    /\ PipeIdle /\ SegIdle /\ SanIdle

----------------------------------------------------------------------------
(* extract_invalid_contacts *)

\* 1. convert_to_utf8(input_vcf, temp_utf8_file)
ConvertToUtf8 ==
    /\ pc = "start"
    /\ files' = [files EXCEPT
                    ![TEMP_UTF8] = File(DecodeText(files[INPUT].content))]
    /\ opened' = opened \cup {TEMP_UTF8}
    /\ stdout' = stdout \o <<"Detected encoding", "Converted to UTF-8">>
    /\ pc' = "converted"
    /\ UNCHANGED <<contacts, valid_contacts, invalid_contacts, serialized>>
    /\ UNCHANGED <<segVars, san, valVars>>

\* 2. remove_non_printable(temp_utf8_file, temp_cleaned_file)
RemoveNonPrintable ==
    /\ pc = "converted"
    /\ files' = [files EXCEPT
                    ![TEMP_CLEANED] = File(SanitizeText(files[TEMP_UTF8].content))]
    /\ opened' = opened \cup {TEMP_CLEANED}
    /\ stdout' = Append(stdout, "Removed non-printable characters")
    /\ pc' = "cleaned"
    /\ UNCHANGED <<contacts, valid_contacts, invalid_contacts, serialized>>
    /\ UNCHANGED <<segVars, san, valVars>>

\* 3. contacts = load_vcf(temp_cleaned_file)
LoadVcf ==
    /\ pc = "cleaned"
    /\ LET r == load_vcf(files[TEMP_CLEANED].content)
       IN  /\ contacts' = r.contacts
           /\ stdout' = stdout \o r.out
    /\ pc' = "loaded"
    /\ UNCHANGED <<files, opened, valid_contacts, invalid_contacts, serialized>>
    /\ UNCHANGED <<segVars, san, valVars>>

\* the early return left out: the run goes on into step 4
ReturnNoContactsFallThrough ==
    /\ pc = "loaded"
    /\ contacts = <<>>
    /\ files' = [files EXCEPT ![EXPLANATIONS] = File(<<>>)]
    /\ opened' = opened \cup {EXPLANATIONS}
    /\ stdout' = stdout \o <<"No contacts loaded", "Valid contacts, Invalid contacts">>
    /\ pc' = "classified"
    /\ UNCHANGED <<contacts, valid_contacts, invalid_contacts, serialized>>
    /\ UNCHANGED <<segVars, san, valVars>>

\* if not contacts: print, return
ReturnNoContacts ==
    /\ pc = "loaded"
    /\ contacts = <<>>
    /\ stdout' = Append(stdout, "No contacts loaded")
    /\ pc' = "done"
    /\ UNCHANGED <<files, opened, contacts, valid_contacts, invalid_contacts,
                   serialized>>
    /\ UNCHANGED <<segVars, san, valVars>>

\* 4. validate the contacts, writing the explanations
Classify ==
    /\ pc = "loaded"
    /\ contacts # <<>>
    /\ LET r == ClassifyFrom(ClassifyInit, contacts, 1)
       IN  /\ valid_contacts' = r.valid
           /\ invalid_contacts' = r.invalid
           /\ files' = [files EXCEPT ![EXPLANATIONS] = File(r.report)]
           /\ stdout' = stdout \o r.out \o <<"Valid contacts, Invalid contacts">>
    /\ opened' = opened \cup {EXPLANATIONS}
    /\ pc' = "classified"
    /\ UNCHANGED <<contacts, serialized>>
    /\ UNCHANGED <<segVars, san, valVars>>

\* 5. save_vcf_with_errors(valid_contacts, valid_vcf)
SaveValid ==
    /\ pc = "classified"
    /\ \E outs \in [1..Len(valid_contacts) -> SerOutcomes] :
           /\ files' = SaveVcfFiles(valid_contacts, VALID, outs, files)
           /\ stdout' = stdout \o SaveVcfOut(valid_contacts, outs)
           /\ serialized' = serialized \cup SaveVcfSerialized(valid_contacts, outs)
    /\ opened' = opened \cup SaveVcfOpened(valid_contacts, VALID)
    /\ pc' = "saved_valid"
    /\ UNCHANGED <<contacts, valid_contacts, invalid_contacts>>
    /\ UNCHANGED <<segVars, san, valVars>>

\* save_vcf_with_errors(invalid_contacts, invalid_vcf)
SaveInvalid ==
    /\ pc = "saved_valid"
    /\ \E outs \in [1..Len(invalid_contacts) -> SerOutcomes] :
           /\ files' = SaveVcfFiles(invalid_contacts, INVALID, outs, files)
           /\ stdout' = stdout \o SaveVcfOut(invalid_contacts, outs)
           /\ serialized' = serialized \cup SaveVcfSerialized(invalid_contacts, outs)
    /\ opened' = opened \cup SaveVcfOpened(invalid_contacts, INVALID)
    /\ pc' = "saved_invalid"
    /\ UNCHANGED <<contacts, valid_contacts, invalid_contacts>>
    /\ UNCHANGED <<segVars, san, valVars>>

\* 6. os.remove of the two temporary files, the last prints, return
Cleanup ==
    /\ pc = "saved_invalid"
    /\ files' = [files EXCEPT ![TEMP_UTF8] = Absent, ![TEMP_CLEANED] = Absent]
    /\ stdout' = stdout \o <<"Processing complete", "Invalid contact reasons saved">>
    /\ pc' = "done"
    /\ UNCHANGED <<opened, contacts, valid_contacts, invalid_contacts, serialized>>
    /\ UNCHANGED <<segVars, san, valVars>>

Next ==
    \/ ConvertToUtf8
    \/ RemoveNonPrintable
    \/ LoadVcf
    \/ ReturnNoContacts
    \/ Classify
    \/ SaveValid
    \/ SaveInvalid
    \/ Cleanup

Spec == Init /\ [][Next]_vars

----------------------------------------------------------------------------
(* load_vcf, one line of the file at a time *)

ScanStep ==
    /\ seg_i <= Len(seg_lines)
    /\ scan' = ScanLine(scan, seg_lines[seg_i], seg_i)
    /\ seg_i' = seg_i + 1
    /\ UNCHANGED <<seg_lines, pipeVars, san, valVars>>

ScanFinish ==
    /\ seg_i = Len(seg_lines) + 1
    /\ ~scan.returned
    /\ scan' = ScanReturn(scan)
    /\ UNCHANGED <<seg_lines, seg_i, pipeVars, san, valVars>>

NextSegment == ScanStep \/ ScanFinish

SpecSegment == InitSegment /\ [][NextSegment]_vars

----------------------------------------------------------------------------
(* remove_non_printable, applied to its own output *)

SanitizeAgain ==
    /\ Len(san) < 3
    /\ san' = Append(san, SanitizeLine(san[Len(san)]))
    /\ UNCHANGED <<pipeVars, segVars, valVars>>

NextSanitize == SanitizeAgain

SpecSanitize == InitSanitize /\ [][NextSanitize]_vars

----------------------------------------------------------------------------
(* VcfValidator.validate on one contact *)

Validate ==
    /\ ~v_done
    /\ v_errors' = validate(v_contact)
    /\ v_done' = TRUE
    /\ UNCHANGED <<v_contact, pipeVars, segVars, san>>

NextValidate == Validate

SpecValidate == InitValidate /\ [][NextValidate]_vars

----------------------------------------------------------------------------
(* Properties *)

\* step 4 of extract_invalid_contacts is over
Classified ==
    \/ pc \in {"classified", "saved_valid", "saved_invalid"}
    \/ pc = "done" /\ contacts # <<>>

Bucket(c, bucket) == {j \in 1..Len(bucket) : bucket[j][1] = c}

Pos(c) == CHOOSE i \in 1..Len(contacts) : contacts[i] = c

InOrder(bucket) ==
    \A j, k \in 1..Len(bucket) : j < k => Pos(bucket[j][1]) < Pos(bucket[k][1])

\* C1: after classification every contact load_vcf returned is exactly once
\* in valid_contacts or exactly once in invalid_contacts, never in both, in
\* valid_contacts exactly when validate returned no message, and each list
\* keeps the order of the load_vcf output.
C1_Partition ==
    Classified =>
        /\ \A i \in 1..Len(contacts) :
               LET c == contacts[i]
                   nv == Cardinality(Bucket(c, valid_contacts))
                   ni == Cardinality(Bucket(c, invalid_contacts))
               IN  /\ nv + ni = 1
                   /\ nv = 1 <=> validate(c) = <<>>
        /\ Len(valid_contacts) + Len(invalid_contacts) = Len(contacts)
        /\ \A j \in 1..Len(invalid_contacts) :
               invalid_contacts[j][2] = validate(invalid_contacts[j][1])
        /\ \A j \in 1..Len(valid_contacts) : valid_contacts[j][2] = <<>>
        /\ InOrder(valid_contacts)
        /\ InOrder(invalid_contacts)

\* three contacts, invalid, valid, invalid, have been classified
C1_Witness ==
    /\ Classified
    /\ Len(contacts) = 3
    /\ validate(contacts[1]) # <<>>
    /\ validate(contacts[2]) = <<>>
    /\ validate(contacts[3]) # <<>>

Missing1(c) == c.fn = <<>> \/ c.fn[1] = <<>>

BadName2(c) == c.fn # <<>> /\ \E i \in 1..Len(c.fn[1]) : c.fn[1][i] \in INVALID_CHARS

Missing3(c) == c.tel = <<>> /\ c.email = <<>>

PhoneMessages(values) ==
    [i \in 1..Len(values) |-> <<"Invalid phone format: ", values[i]>>]

\* C2: validate returns the messages of rule 1, rule 2, rule 3 and rule 4 in
\* that order, each rule decided on its own; rule 4 gives one message per
\* telephone value that fails the pattern, in list order.  No name, no
\* telephone, no email gives the two Missing messages; the name Bob<> with
\* no telephone and no email gives the name message, then the Missing one.
C2_RuleOrder ==
    v_done =>
        /\ v_errors =
               (IF Missing1(v_contact) THEN << <<"Missing full name">> >> ELSE <<>>)
            \o (IF BadName2(v_contact)
                THEN << <<"Invalid characters in name: ", v_contact.fn[1]>> >>
                ELSE <<>>)
            \o (IF Missing3(v_contact)
                THEN << <<"Missing phone and/or email">> >> ELSE <<>>)
            \o PhoneMessages(SelectSeq(v_contact.tel, LAMBDA t : ~PhoneMatch(t)))
        /\ (v_contact.fn = <<>> /\ v_contact.tel = <<>> /\ v_contact.email = <<>>)
               => v_errors = << <<"Missing full name">>,
                                <<"Missing phone and/or email">> >>
        /\ (/\ v_contact.fn = << <<"B", "o", "b", "<", ">">> >>
            /\ v_contact.tel = <<>>
            /\ v_contact.email = <<>>)
               => v_errors = << <<"Invalid characters in name: ",
                                  <<"B", "o", "b", "<", ">">> >>,
                                <<"Missing phone and/or email">> >>

\* validate has returned for the contact Bob<> without telephone and email
C2_Witness ==
    /\ v_done
    /\ v_contact.fn = << <<"B", "o", "b", "<", ">">> >>
    /\ v_contact.tel = <<>>
    /\ v_contact.email = <<>>
    /\ Len(v_errors) = 2

\* the messages of rule 4 among the errors
PhoneErrorsOf(errors) ==
    SelectSeq(errors, LAMBDA e : e[1] = "Invalid phone format: ")

OffendingSpace(t) ==
    \/ t = <<>>
    \/ \E i \in 1..Len(t) : t[i] \notin (Digits \cup {" ", "+", "-", "(", ")"})

OffendingWhitespace(t) ==
    \/ t = <<>>
    \/ \E i \in 1..Len(t) : t[i] \notin (Digits \cup Whitespace \cup {"+", "-", "(", ")"})

\* C3, as stated: validate reports a telephone value exactly when it is
\* empty or has a character that is not a digit, a space, +, -, ( or ).
C3_Original ==
    v_done =>
        PhoneErrorsOf(v_errors)
            = PhoneMessages(SelectSeq(v_contact.tel, OffendingSpace))

\* C3, amended: validate reports a telephone value, once per occurrence and
\* in list order, exactly when it is empty or has a character that is not a
\* digit, a whitespace character, +, -, ( or ); a tab or a newline in a
\* value is not reported.
C3_PhoneFormat ==
    v_done =>
        PhoneErrorsOf(v_errors)
            = PhoneMessages(SelectSeq(v_contact.tel, OffendingWhitespace))

\* validate has returned for a contact with a value holding a tab and a
\* value holding a letter, and reported the second alone
C3_Witness ==
    /\ v_done
    /\ v_contact.tel = << <<"1", "\t", "2">>, <<"1", "a">> >>
    /\ PhoneErrorsOf(v_errors) = << <<"Invalid phone format: ", <<"1", "a">> >> >>

IsBegin(raw) == StartsWith(Strip(raw), BeginMarker)

IsEnd(raw) == ~IsBegin(raw) /\ StartsWith(Strip(raw), EndMarker)

IsBody(raw) == ~IsBegin(raw) /\ ~IsEnd(raw)

StripAll(ls) == [i \in 1..Len(ls) |-> Strip(ls[i])]

WellFormedBlock(ls) ==
    /\ Len(ls) >= 2
    /\ IsBegin(ls[1])
    /\ IsEnd(ls[Len(ls)])
    /\ \A i \in 2..(Len(ls) - 1) : IsBody(ls[i])
    /\ ParseRecord(StripAll(ls), 0).ok

UnterminatedBlock(ls) ==
    /\ Len(ls) >= 1
    /\ IsBegin(ls[1])
    /\ \A i \in 2..Len(ls) : IsBody(ls[i])

OnlyBlock(ls) ==
    /\ Len(scan.contacts) = 1
    /\ scan.parsed = <<StripAll(ls)>>

\* C4: on a file made of one well-formed block and one block without its
\* end-marker, in either order, load_vcf returns exactly one contact, and
\* the only text handed to the parser is the well-formed block.
C4_Unterminated ==
    scan.returned =>
        \A k \in 1..(Len(seg_lines) - 1) :
            LET a == SubSeq(seg_lines, 1, k)
                b == SubSeq(seg_lines, k + 1, Len(seg_lines))
            IN  /\ (WellFormedBlock(a) /\ UnterminatedBlock(b)) => OnlyBlock(a)
                /\ (UnterminatedBlock(a) /\ WellFormedBlock(b)) => OnlyBlock(b)

\* load_vcf has returned on an unterminated block with a body line followed
\* by a well-formed block with a body line
C4_Witness ==
    /\ scan.returned
    /\ \E k \in 2..(Len(seg_lines) - 3) :
           /\ UnterminatedBlock(SubSeq(seg_lines, 1, k))
           /\ WellFormedBlock(SubSeq(seg_lines, k + 1, Len(seg_lines)))

\* the serializations written for a bucket
Expected(bucket) ==
    Flatten([i \in 1..Len(bucket) |->
                IF <<bucket[i][1].id, "text">> \in serialized
                THEN SerializeText(bucket[i][1])
                ELSE <<>>])

\* C5: after a run in which a contact was loaded, each output file holds the
\* serializations of its bucket in bucket order, an empty bucket giving an
\* empty file.
C5_OutputsWritten ==
    (pc = "done" /\ contacts # <<>>) =>
        /\ files[VALID] = File(Expected(valid_contacts))
        /\ files[INVALID] = File(Expected(invalid_contacts))

\* C6: after a run, also one that stopped for want of contacts, neither
\* temp_utf8.vcf nor temp_cleaned.vcf exists.
C6_TempsRemoved ==
    pc = "done" => ~files[TEMP_UTF8].exists /\ ~files[TEMP_CLEANED].exists

\* C7: when load_vcf returned no contact, the run ends without having
\* opened the valid file, the invalid file or the report for writing, these
\* are as they were before the run, and the validator was not called.
C7_NoOutputs ==
    (pc \in {"loaded", "done"} /\ contacts = <<>>) =>
        /\ opened \cap {VALID, INVALID, EXPLANATIONS} = {}
        /\ \A p \in {VALID, INVALID, EXPLANATIONS} : files[p] \in {Absent, Stale}
        /\ \A i \in 1..Len(stdout) : stdout[i] # "Validating contact"
        /\ valid_contacts = <<>> /\ invalid_contacts = <<>>

\* a run on a file whose blocks were all malformed has returned
C7_Witness ==
    /\ pc = "done"
    /\ contacts = <<>>
    /\ \E i \in 1..Len(stdout) : stdout[i] = "Malformed contact"

\* C8: sanitizing a sanitized text changes nothing.
C8_Idempotent == Len(san) = 3 => san[3] = san[2]

\* a text with a non-printable character and a ? has been sanitized twice
C8_Witness ==
    /\ Len(san) = 3
    /\ \E i \in 1..Len(san[1]) : san[1][i] \notin Printable
    /\ \E i \in 1..Len(san[1]) : san[1][i] = "?"

\* the end-marker lines met while a capture is in progress
RECURSIVE MatchedEnds(_, _, _)
MatchedEnds(lines, i, inside) ==
    IF i > Len(lines) THEN 0
    ELSE IF IsBegin(lines[i]) THEN MatchedEnds(lines, i + 1, TRUE)
    ELSE IF IsEnd(lines[i])
    THEN (IF inside THEN 1 ELSE 0) + MatchedEnds(lines, i + 1, FALSE)
    ELSE MatchedEnds(lines, i + 1, inside)

\* C9: a line met outside a capture that is no begin-marker is ignored, so
\* the parser is called once per end-marker that closes a capture, and a
\* malformed-block message is printed only for such a call.
C9_OutsideIgnored ==
    scan.returned =>
        /\ Len(scan.parsed) = MatchedEnds(seg_lines, 1, FALSE)
        /\ \A i \in 1..Len(scan.parsed) : StartsWith(scan.parsed[i][1], BeginMarker)

\* the full name of contact c as the decoded input has it has a character
\* outside string.printable
RawNameNotPrintable(c) ==
    LET d == DecodeText(files[INPUT].content)
        isFN(j) == StartsWith(Strip(d[j]), <<"F", "N", ":">>)
    IN  \E j \in (c.id + 1)..Len(d) :
            /\ isFN(j)
            /\ \A h \in (c.id + 1)..(j - 1) : IsBody(d[h]) /\ ~isFN(h)
            /\ \E x \in 4..Len(Strip(d[j])) : Strip(d[j])[x] \notin Printable

====
